---- MODULE Spec2Model ----
(***************************************************************************)
(* A model of enaml's constraints-based layout widgets:                    *)
(*   enaml/widgets/constraints_widget.py  (ConstraintsWidget)              *)
(*   enaml/widgets/container.py           (Container)                      *)
(* The widgets' declarative fields, the coalesced relayout request and the *)
(* application's deferred task queue are the state; the public methods,   *)
(* the observers and the steps of the task queue are the actions.          *)
(***************************************************************************)
EXTENDS Integers, Sequences, FiniteSets, TLC

VARIABLES
    fields,         \* fields[w][f]: the declarative members of widget w
    children,       \* children[c]: the child objects of container c, in order
    active,         \* active[w]: w.proxy_is_active
    layout_task,    \* layout_task[w]: w._layout_task (NoTask when unset)
    queue,          \* the application's queue of scheduled tasks, FIFO
    running,        \* the task the scheduler is executing (NoTask when none)
    pc,             \* the scheduler's position in the running task
    invoked,        \* proxy.relayout() invocations since the scheduler was idle
    calls,          \* calls[w]: relayout() calls accepted or coalesced into
                    \*           w's task while it waits in the queue
    hooks,          \* hooks[w]: what the hook methods of w's class return
    collected,      \* the last constraints-collecting call and its result
    pristine,       \* no strength member of any widget was assigned yet
    members,        \* members[w][n]: the Constant member n of w, once created
    dock,           \* the displayed DockArea: its layout, the warnings of the
                    \* last step, and the globals of the calling module
    handled         \* the last child event of a container and the steps its
                    \* handler took, in order

vars == <<fields, children, active, layout_task, queue, running, pc,
          invoked, calls, hooks, collected, pristine,
          members, dock, handled>>

-----------------------------------------------------------------------------
(* Bounds of the model.                                                    *)

\* relayout() calls counted per waiting task (the counter saturates here)
MaxCalls == 3

\* fields that differ from their declared default at the same time
MaxDirty == 1

\* longest user constraints list assigned to a widget
MaxCns == 1

\* longest user constraints list a collection starts from
MaxLen == 2

\* most children of a container
MaxChildren == 3

\* largest value given to a primitive variable when expressions are evaluated
MaxCoord == 1

-----------------------------------------------------------------------------
(* The objects of the scenario: one Container holding widgets.             *)

\* Container instances
Containers == {"c"}

\* ConstraintsWidget instances (a Container is a ConstraintsWidget)
Widgets == {"c", "w"}

\* _layout_task's default: no task
NoTask == [callback |-> "none", notify |-> "none"]

\* no child event was handled yet
NoEvent == [event |-> "none", container |-> "none", child |-> "none", steps |-> <<>>]

\* the values of PolicyEnum
PolicyEnum == {"ignore", "weak", "medium", "strong", "required"}

\* the four strength members
PolicyFields == {"hug_width", "hug_height", "resist_width", "resist_height"}

\* a ConstraintsWidget that is only followed as a child of the container
Siblings == {"v"}

\* children that are not ConstraintsWidgets
OtherObjects == {"x"}

\* isinstance(o, ConstraintsWidget)
IsConstraintsWidget(o) == o \in Widgets \cup Siblings

\* a LinearConstraint: variable `name` of widget `owner`, compared with rhs
Linear(owner, name, op, rhs) ==
    [kind |-> "linear", var |-> <<owner, name>>, op |-> op, rhs |-> rhs, items |-> <<>>]

\* a DeferredConstraints helper over items
Helper(kind, items) ==
    [kind |-> kind, var |-> <<"", "">>, op |-> "", rhs |-> 0, items |-> items]

\* entries a user puts in a constraints list
UserConstraints == {Linear("w", "width", "==", 20), Linear("w", "left", ">=", 5)}

RECURSIVE SeqsUpTo(_, _)
\* all sequences over S of length at most n
SeqsUpTo(S, n) ==
    IF n = 0 THEN {<<>>}
    ELSE LET shorter == SeqsUpTo(S, n - 1)
         IN  shorter \cup {Append(s, e) : s \in {t \in shorter : Len(t) = n - 1}, e \in S}

\* the constraints lists assigned in the scenario
ConstraintLists == SeqsUpTo(UserConstraints, MaxCns)

\* the padding boxes assigned in the scenario (top, right, bottom, left)
PaddingInputs == {<<10, 10, 10, 10>>, <<0, 0, 0, 0>>}

\* the declarative members of a widget of the given class
FieldNames(w) ==
    IF w \in Containers
    THEN {"constraints"} \cup PolicyFields \cup {"share_layout", "padding"}
    ELSE {"constraints"} \cup PolicyFields

\* the values the scenario assigns to a member
FieldInputs(f) ==
    CASE f = "constraints"  -> ConstraintLists
      [] f \in PolicyFields -> PolicyEnum \cup {"bogus"}
      [] f = "share_layout" -> BOOLEAN
      [] f = "padding"      -> PaddingInputs

\* the member's validation: an Enum member takes only its items
Validates(f, v) == f \in PolicyFields => v \in PolicyEnum

\* the defaults without Container's set_default('ignore')
DefaultFieldNoSetDefault(w, f) ==
    CASE f = "constraints"  -> <<>>
      [] f \in PolicyFields -> "strong"
      [] f = "share_layout" -> FALSE
      [] f = "padding"      -> <<10, 10, 10, 10>>

\* the declared default of member f of widget w
DefaultField(w, f) ==
    CASE f = "constraints"  -> <<>>
      [] f \in {"hug_width", "hug_height"} ->
            IF w \in Containers THEN "ignore" ELSE "strong"
      [] f \in {"resist_width", "resist_height"} -> "strong"
      [] f = "share_layout" -> FALSE
      [] f = "padding"      -> <<10, 10, 10, 10>>

\* ObservedFields with Container's observer left off 'padding'
ObservedFieldsNoPadding(w) ==
    {"constraints", "hug_width", "hug_height", "resist_width", "resist_height"}
        \cup (IF w \in Containers THEN {"share_layout"} ELSE {})

\* the members whose change runs the _layout_invalidated observer
ObservedFields(w) ==
    IF w \in Containers
    THEN {"constraints", "hug_width", "hug_height", "resist_width",
          "resist_height"} \cup {"share_layout", "padding"}
    ELSE {"constraints", "hug_width", "hug_height", "resist_width",
          "resist_height"}

-----------------------------------------------------------------------------
(* Helpers.                                                                *)

\* number of tasks of widget w in task sequence q
CountTasks(q, w) == Cardinality({i \in 1..Len(q) : q[i].callback = w})

\* number of members of all widgets that differ from their default
Dirty == Cardinality({p \in Widgets \X (PolicyFields \cup {"constraints", "share_layout", "padding"}) :
                        /\ p[2] \in FieldNames(p[1])
                        /\ fields[p[1]][p[2]] # DefaultField(p[1], p[2])})

\* user code runs between scheduler events or from inside proxy.relayout()
CanCall == pc \in {"idle", "proxy"}

-----------------------------------------------------------------------------
(* ConstraintsWidget.relayout                                              *)

\* Application.schedule(callback): the task is queued, never run at once
Schedule(q, w) == Append(q, [callback |-> w, notify |-> "none"])

\* ScheduledTask.notify(callback)
Notify(task, w) == [task EXCEPT !.notify = w]

\* RelayoutGuard without the test of proxy_is_active
RelayoutGuardNoActiveCheck(w) == layout_task[w] = NoTask

\* RelayoutGuard without the test of _layout_task
RelayoutGuardNoTaskCheck(w) == active[w]

\* the guard of relayout(): proxy active and no task held
RelayoutGuard(w) == active[w] /\ layout_task[w] = NoTask

\* relayout() calling the layout task at once instead of scheduling it
relayoutSync(w) ==
    IF active[w] /\ layout_task[w] = NoTask
    THEN [queue       |-> queue,
          layout_task |-> layout_task,
          invoked     |-> invoked \o <<[widget |-> w, by |-> "relayout"]>>,
          calls       |-> calls]
    ELSE [queue       |-> queue,
          layout_task |-> layout_task,
          invoked     |-> invoked,
          calls       |-> calls]

\* relayout() scheduling the task without task.notify(task_completed)
relayoutNoNotify(w) ==
    IF active[w] /\ layout_task[w] = NoTask
    THEN LET q == Schedule(queue, w)
         IN  [queue       |-> q,
              layout_task |-> [layout_task EXCEPT ![w] = q[Len(q)]],
              invoked     |-> invoked,
              calls       |-> [calls EXCEPT ![w] = 1]]
    ELSE [queue       |-> queue,
          layout_task |-> layout_task,
          invoked     |-> invoked,
          calls       |-> calls]

\* relayout(): the state it leaves, as a record of the changed variables
relayout(w) ==
    IF RelayoutGuard(w)
    THEN LET q    == Schedule(queue, w)
             task == Notify(q[Len(q)], w)
         IN  [queue       |-> [q EXCEPT ![Len(q)] = task],
              layout_task |-> [layout_task EXCEPT ![w] = task],
              invoked     |-> invoked,
              calls       |-> [calls EXCEPT ![w] = 1]]
    ELSE [queue       |-> queue,
          layout_task |-> layout_task,
          invoked     |-> invoked,
          calls       |-> [calls EXCEPT ![w] =
                             IF active[w] /\ CountTasks(queue, w) > 0 /\ @ < MaxCalls
                             THEN @ + 1 ELSE @]]

\* w.relayout() is called while the body of w's own task is executing
Reenters(w) == pc = "proxy" /\ running.callback = w /\ active[w]

\* a direct call of w.relayout()
Relayout(w) ==
    /\ CanCall
    /\ LET r == relayout(w)
       IN  /\ queue' = r.queue
           /\ layout_task' = r.layout_task
           /\ invoked' = r.invoked
           /\ calls' = r.calls
    /\ UNCHANGED <<handled, dock, members, pristine, fields, children, hooks, collected, active, running, pc>>

\* an assignment w.f = v that changes the member, with its observers
SetField(w, f, v) ==
    /\ CanCall
    /\ f \in FieldNames(w)
    /\ v \in FieldInputs(f)
    /\ v # fields[w][f]
    /\ \/ v = DefaultField(w, f)
       \/ fields[w][f] # DefaultField(w, f)
       \/ Dirty < MaxDirty
    /\ Validates(f, v)
    /\ fields' = [fields EXCEPT ![w][f] = v]
    /\ pristine' = (pristine /\ f \notin PolicyFields)
    /\ LET r == IF f \in ObservedFields(w)
                THEN relayout(w)
                ELSE [queue |-> queue, layout_task |-> layout_task,
                      invoked |-> invoked, calls |-> calls]
       IN  /\ queue' = r.queue
           /\ layout_task' = r.layout_task
           /\ invoked' = r.invoked
           /\ calls' = r.calls
    /\ UNCHANGED <<handled, dock, members, children, hooks, collected, active, running, pc>>

-----------------------------------------------------------------------------
(* The proxy's life cycle.                                                 *)

\* the toolkit activates w's proxy
Activate(w) ==
    /\ CanCall
    /\ ~active[w]
    /\ active' = [active EXCEPT ![w] = TRUE]
    /\ UNCHANGED <<handled, dock, members, pristine, fields, children, hooks, collected, layout_task, queue, running, pc, invoked, calls>>

\* the toolkit deactivates w's proxy
Deactivate(w) ==
    /\ CanCall
    /\ active[w]
    /\ active' = [active EXCEPT ![w] = FALSE]
    /\ UNCHANGED <<handled, dock, members, pristine, fields, children, hooks, collected, layout_task, queue, running, pc, invoked, calls>>

-----------------------------------------------------------------------------
(* The application's task queue running a layout task.                     *)

\* layout_task() without the test of proxy_is_active
LayoutTaskBodyUnchecked(w) == <<[widget |-> w, by |-> "task"]>>

\* the closure layout_task(): the proxy.relayout() invocations it makes
LayoutTaskBody(w) ==
    IF active[w] THEN <<[widget |-> w, by |-> "task"]>> ELSE <<>>

\* task_completed(r) that leaves _layout_task in place
TaskCompletedKeeps(lt, w) == lt

\* the closure task_completed(r): del self._layout_task
TaskCompleted(lt, w) == [lt EXCEPT ![w] = NoTask]

\* the scheduler takes the next task and enters its body
TaskBegin ==
    /\ pc = "idle"
    /\ queue # <<>>
    /\ LET task == Head(queue)
           made == LayoutTaskBody(task.callback)
       IN  /\ running' = task
           /\ queue' = Tail(queue)
           /\ invoked' = invoked \o made
           /\ pc' = IF made # <<>> THEN "proxy" ELSE "returned"
    /\ UNCHANGED <<handled, dock, members, pristine, fields, children, hooks, collected, active, layout_task, calls>>

\* proxy.relayout() returns and with it the task body
ProxyReturn ==
    /\ pc = "proxy"
    /\ pc' = "returned"
    /\ UNCHANGED <<handled, dock, members, pristine, fields, children, hooks, collected, active, layout_task, queue, running, invoked, calls>>

\* proxy.relayout() raises (the abstract proxy raises NotImplementedError)
ProxyRaise ==
    /\ pc = "proxy"
    /\ pc' = "raised"
    /\ UNCHANGED <<handled, dock, members, pristine, fields, children, hooks, collected, active, layout_task, queue, running, invoked, calls>>

\* the scheduler fires the completion callback of the finished task
TaskNotify ==
    /\ pc = "returned"
    /\ layout_task' = IF running.notify # "none"
                      THEN TaskCompleted(layout_task, running.notify)
                      ELSE layout_task
    /\ calls' = [calls EXCEPT ![running.callback] = 0]
    /\ running' = NoTask
    /\ invoked' = <<>>
    /\ pc' = "idle"
    /\ UNCHANGED <<handled, dock, members, pristine, fields, children, hooks, collected, active, queue>>

\* the scheduler drops a task whose body raised; whether the completion
\* callback of such a task is fired is left open by the scheduler's contract
TaskFailed(fires) ==
    /\ pc = "raised"
    /\ layout_task' = IF fires /\ running.notify # "none"
                      THEN TaskCompleted(layout_task, running.notify)
                      ELSE layout_task
    /\ calls' = [calls EXCEPT ![running.callback] = 0]
    /\ running' = NoTask
    /\ invoked' = <<>>
    /\ pc' = "idle"
    /\ UNCHANGED <<handled, dock, members, pristine, fields, children, hooks, collected, active, queue>>

-----------------------------------------------------------------------------
(* The symbolic box model: Constant members created on first access.       *)

\* the ConstraintMember members
Primitives == {"left", "top", "width", "height"}

\* the Constant members with a _default_ method
Derived == {"right", "bottom", "v_center", "h_center"}

\* a member that was not accessed yet; a created member is a linear
\* expression, a set of <<variable, coefficient in halves>> terms
Unset == {}

\* default() handing every owner the one variable of the member
ConstraintVariableOfMember(owner, name) == <<"", name>>

\* ConstraintMember.default(owner): the variable named after the member
ConstraintVariable(owner, name) == <<owner, name>>

\* a variable as an expression: 1.0 * variable
Term(var) == {<<var, 2>>}

\* the variables of an expression
VarsOf(e) == {t[1] : t \in e}

\* the coefficient of var in e, in halves (0 when absent)
Coeff(e, var) == IF var \in VarsOf(e) THEN (CHOOSE t \in e : t[1] = var)[2] ELSE 0

\* a + b
Plus(a, b) == {<<v, Coeff(a, v) + Coeff(b, v)>> : v \in VarsOf(a) \cup VarsOf(b)}

\* a / 2.0
Halved(a) == {<<t[1], t[2] \div 2>> : t \in a}

\* _default_right computed like the horizontal center
DefaultRightHalved(m, w) == Plus(m[w]["left"], Halved(m[w]["width"]))

\* _default_right: self.left + self.width
DefaultRight(m, w) == Plus(m[w]["left"], m[w]["width"])

\* _default_bottom: self.top + self.height
DefaultBottom(m, w) == Plus(m[w]["top"], m[w]["height"])

\* _default_v_center: self.top + self.height / 2.0
DefaultVCenter(m, w) == Plus(m[w]["top"], Halved(m[w]["height"]))

\* _default_h_center: self.left + self.width / 2.0
DefaultHCenter(m, w) == Plus(m[w]["left"], Halved(m[w]["width"]))

\* reading primitive member n of w: created by default() on first access
TouchPrimitive(m, w, n) ==
    IF m[w][n] # Unset THEN m
    ELSE [m EXCEPT ![w][n] = Term(ConstraintVariable(w, n))]

\* reading member n of w: a derived member is computed from the primitives
\* it reads, on first access only
Touch(m, w, n) ==
    IF m[w][n] # Unset THEN m
    ELSE IF n \in Primitives THEN TouchPrimitive(m, w, n)
    ELSE LET horizontal == n \in {"right", "h_center"}
             m1 == TouchPrimitive(m, w, IF horizontal THEN "left" ELSE "top")
             m2 == TouchPrimitive(m1, w, IF horizontal THEN "width" ELSE "height")
         IN  [m2 EXCEPT ![w][n] =
                 CASE n = "right"    -> DefaultRight(m2, w)
                   [] n = "bottom"   -> DefaultBottom(m2, w)
                   [] n = "v_center" -> DefaultVCenter(m2, w)
                   [] n = "h_center" -> DefaultHCenter(m2, w)]

\* user code reads w.n
Access(w, n) ==
    /\ CanCall
    /\ members' = Touch(members, w, n)
    /\ UNCHANGED <<handled, dock, pristine, fields, children, hooks, collected, active, layout_task, queue, running, pc, invoked, calls>>

-----------------------------------------------------------------------------
(* The DockArea of the dock layout tests and the validation of its layout. *)

\* the DockItems declared in the DockArea
DockItems == {"item1", "item2"}

\* the item names the layouts of the scenario refer to
LayoutNames == {"item1", "item2", "item3"}

\* the split layouts of the scenario: no name twice
DockLayouts ==
    {l \in [kind : {"VSplitLayout", "HSplitLayout"}, names : SeqsUpTo(LayoutNames, 3)] :
        /\ l.names # <<>>
        /\ \A i, j \in 1..Len(l.names) : i # j => l.names[i] # l.names[j]}

\* the globals of the module that assigns the layout
ModuleGlobals == {"HSplitLayout", "DockLayoutWarning", "DockArea", "DockItem"}

\* the names a layout refers to
NamesOf(l) == {l.names[i] : i \in 1..Len(l.names)}

\* a validation with the membership test inverted
ValidateLayoutInverted(l) ==
    IF NamesOf(l) \cap DockItems # {} THEN <<"DockLayoutWarning">> ELSE <<>>

\* the validation of a layout: a warning when it names an unknown item
ValidateLayout(l) ==
    IF NamesOf(l) \ DockItems # {} THEN <<"DockLayoutWarning">> ELSE <<>>

\* a validation that leaves a name behind in the caller's globals
GlobalsAfterValidationLeaky(g, l) == g \cup NamesOf(l)

\* the caller's globals after a validation
GlobalsAfterValidation(g, l) == g

\* the area as displayed by the tests, under the given warnings filter
InitDock(filter) ==
    [layout  |-> [kind |-> "VSplitLayout", names |-> <<"item1", "item2">>],
     applied |-> TRUE,
     emitted |-> <<>>,
     raised  |-> FALSE,
     globals |-> ModuleGlobals,
     filter  |-> filter]

\* area.layout = l: the layout is validated and handed to the proxy later;
\* under the 'error' filter a warning is raised as an exception
AssignLayout(l) ==
    /\ l # dock.layout
    /\ LET w == ValidateLayout(l)
       IN  dock' = [dock EXCEPT
                      !.layout  = l,
                      !.applied = FALSE,
                      !.emitted = IF dock.filter = "error" THEN <<>> ELSE w,
                      !.raised  = (dock.filter = "error" /\ w # <<>>),
                      !.globals = GlobalsAfterValidation(dock.globals, l)]
    /\ UNCHANGED <<handled, members, pristine, fields, children, hooks, collected, active, layout_task, queue, running, pc, invoked, calls>>

\* an update cycle: the proxy applies the pending layout
UpdateCycle ==
    /\ ~dock.applied
    /\ dock' = [dock EXCEPT !.applied = TRUE, !.emitted = <<>>, !.raised = FALSE]
    /\ UNCHANGED <<handled, members, pristine, fields, children, hooks, collected, active, layout_task, queue, running, pc, invoked, calls>>

-----------------------------------------------------------------------------
(* The constraints a widget supplies to the layout.                        *)

\* the hook methods as ConstraintsWidget implements them: empty lists
BaseHooks == [defaults |-> <<>>, component |-> <<>>]

\* what a subclass's _get_default_constraints() returns in the scenario
DefaultInputs == {<<>>, <<Linear("w", "height", "==", 30)>>}

\* what a subclass's _component_constraints() returns in the scenario
ComponentInputs == {<<>>, <<Linear("w", "width", ">=", 1)>>}

\* the hook overrides of w's class: Container keeps the base hooks
HookInputs(w) ==
    IF w \in Containers
    THEN {BaseHooks}
    ELSE [defaults : DefaultInputs, component : ComponentInputs]

\* no collecting call made yet
NoCall == [op |-> "none", widget |-> "none", result |-> <<>>, consulted |-> {}]

\* w.<name> >= 0
NonNegative(w, name) ==
    [kind |-> "linear", var |-> ConstraintVariable(w, name), op |-> ">=",
     rhs |-> 0, items |-> <<>>]

\* _hard_constraints as its docstring words it: left, right, width, height
HardConstraintsAsDocstring(w) ==
    <<NonNegative(w, "left"), NonNegative(w, "right"),
      NonNegative(w, "width"), NonNegative(w, "height")>>

\* _hard_constraints()
HardConstraints(w) ==
    <<NonNegative(w, "left"), NonNegative(w, "top"),
      NonNegative(w, "width"), NonNegative(w, "height")>>

\* _component_constraints()
ComponentConstraints(w) == hooks[w].component

\* _get_default_constraints()
GetDefaultConstraints(w) == hooks[w].defaults

\* the constraint the helper generates for its i-th item
Generated(h, i) ==
    [kind |-> "linear", var |-> <<h.items[i], "top">>, op |-> h.kind,
     rhs |-> i, items |-> <<>>]

RECURSIVE expand_constraints(_, _)
\* expand_constraints(component, cns): linear constraints are kept, a
\* helper is replaced by the constraints it generates
expand_constraints(w, cns) ==
    IF cns = <<>> THEN <<>>
    ELSE LET cn == Head(cns)
             out == IF cn.kind = "linear" THEN <<cn>>
                    ELSE [i \in 1..Len(cn.items) |-> Generated(cn, i)]
         IN  out \o expand_constraints(w, Tail(cns))

\* the base list that always adds the default constraints to the user's
BaseListWithDefaults(w) ==
    [list      |-> fields[w]["constraints"] \o GetDefaultConstraints(w),
     consulted |-> {"_get_default_constraints"},
     aliased   |-> FALSE]

\* cns = self.constraints; if not cns: cns = self._get_default_constraints()
BaseList(w) ==
    IF fields[w]["constraints"] # <<>>
    THEN [list      |-> fields[w]["constraints"],
          consulted |-> {},
          aliased   |-> TRUE]
    ELSE [list      |-> GetDefaultConstraints(w),
          consulted |-> {"_get_default_constraints"},
          aliased   |-> FALSE]

\* the list with the component constraints put in front of the base list
CollectedListComponentFirst(w) == ComponentConstraints(w) \o BaseList(w).list

\* cns += self._component_constraints()
CollectedList(w) == BaseList(w).list \o ComponentConstraints(w)

\* a call of w._collect_constraints(); `cns += ...` extends the list in
\* place, and that list is the member's own list when the user gave one
CollectConstraints(w) ==
    /\ Len(fields[w]["constraints"]) <= MaxLen
    /\ LET base == BaseList(w)
           cns  == CollectedList(w)
       IN  /\ collected' = [op        |-> "_collect_constraints",
                            widget    |-> w,
                            result    |-> expand_constraints(w, cns),
                            consulted |-> base.consulted \cup {"_component_constraints"}]
           /\ fields' = IF base.aliased
                        THEN [fields EXCEPT ![w]["constraints"] = cns]
                        ELSE fields
    /\ UNCHANGED <<handled, dock, members, pristine, children, hooks, active, layout_task, queue, running, pc, invoked, calls>>

\* a call of w._hard_constraints()
CallHardConstraints(w) ==
    /\ collected' = [op        |-> "_hard_constraints",
                     widget    |-> w,
                     result    |-> HardConstraints(w),
                     consulted |-> {}]
    /\ members' = Touch(Touch(Touch(Touch(members, w, "left"), w, "top"), w, "width"), w, "height")
    /\ UNCHANGED <<handled, dock, pristine, fields, children, hooks, active, layout_task, queue, running, pc, invoked, calls>>

\* Container.widgets() returning every child
widgetsUnfiltered(c) == children[c]

\* Container.widgets(): the children that are ConstraintsWidgets, in order
widgets(c) == SelectSeq(children[c], IsConstraintsWidget)

\* vbox(*items)
vbox(items) == Helper("vbox", items)

\* Container.layout_constraints()
layout_constraints(c) ==
    IF fields[c]["constraints"] # <<>>
    THEN fields[c]["constraints"]
    ELSE <<vbox(widgets(c))>>

\* a call of c.layout_constraints()
CallLayoutConstraints(c) ==
    /\ collected' = [op        |-> "layout_constraints",
                     widget    |-> c,
                     result    |-> layout_constraints(c),
                     consulted |-> {}]
    /\ UNCHANGED <<handled, dock, members, pristine, fields, children, hooks, active, layout_task, queue, running, pc, invoked, calls>>

-----------------------------------------------------------------------------
(* The specification of the layout scheduling.                             *)

\* the state of the task queue and of the proxies after construction
InitScheduling ==
    /\ active = [w \in Widgets |-> FALSE]
    /\ layout_task = [w \in Widgets |-> NoTask]
    /\ queue = <<>>
    /\ running = NoTask
    /\ pc = "idle"
    /\ invoked = <<>>
    /\ calls = [w \in Widgets |-> 0]
    /\ pristine = TRUE
    /\ members = [w \in Widgets |-> [n \in Primitives \cup Derived |-> Unset]]
    /\ handled = NoEvent

\* the widgets as constructed, without children or hook overrides of note
InitWidgets ==
    /\ fields = [w \in Widgets |-> [f \in FieldNames(w) |-> DefaultField(w, f)]]
    /\ children = [c \in Containers |-> <<"w", "x">>]
    /\ hooks = [w \in Widgets |-> BaseHooks]
    /\ collected = NoCall

Init ==
    /\ dock = InitDock("default")
    /\ InitWidgets
    /\ InitScheduling

Next ==
    \/ \E w \in Widgets : Relayout(w)
    \/ \E w \in Widgets : \E f \in FieldNames(w) : \E v \in FieldInputs(f) : SetField(w, f, v)
    \/ \E w \in Widgets : Activate(w)
    \/ \E w \in Widgets : Deactivate(w)
    \/ TaskBegin
    \/ ProxyReturn
    \/ ProxyRaise
    \/ TaskNotify
    \/ \E fires \in BOOLEAN : TaskFailed(fires)

Spec == Init /\ [][Next]_vars

-----------------------------------------------------------------------------
(* The specification of the constraints collection: the user lists, the   *)
(* hook overrides and the children are drawn from the scenario's inputs,   *)
(* and the collecting methods are called on them.                          *)

\* the objects a container may hold
ChildObjects == (Widgets \ Containers) \cup Siblings \cup OtherObjects

\* the child lists of the scenario: no object twice
ChildLists ==
    {s \in SeqsUpTo(ChildObjects, MaxChildren) :
        \A i, j \in 1..Len(s) : i # j => s[i] # s[j]}

\* the user lists a collection starts from
CollectLists == SeqsUpTo(UserConstraints \cup {vbox(<<"v">>)}, MaxLen)

InitCollect ==
    /\ \E cl \in [Widgets -> CollectLists] :
          /\ \A c \in Containers : cl[c] \in ConstraintLists
          /\ fields = [w \in Widgets |->
                         [f \in FieldNames(w) |->
                             IF f = "constraints" THEN cl[w] ELSE DefaultField(w, f)]]
    /\ children \in [Containers -> ChildLists]
    /\ \E h \in [Widgets -> [defaults : DefaultInputs, component : ComponentInputs]] :
          /\ \A w \in Widgets : h[w] \in HookInputs(w)
          /\ hooks = h
    /\ collected = NoCall
    /\ InitScheduling
    /\ dock = InitDock("default")

NextCollect ==
    \/ \E w \in Widgets : CollectConstraints(w)
    \/ \E w \in Widgets : CallHardConstraints(w)
    \/ \E c \in Containers : CallLayoutConstraints(c)

SpecCollect == InitCollect /\ [][NextCollect]_vars

-----------------------------------------------------------------------------
(* Container child events: the tree adds or removes a child of a container *)
(* and calls the container's handler of the event.                         *)

\* ConstraintsWidget.request_relayout(): the widget asks for a relayout
request_relayout(c) == relayout(c)

\* child_added requesting the relayout after the superclass handler has run
child_addedSuperFirst(child) ==
    IF IsConstraintsWidget(child)
    THEN <<"super", "request_relayout">>
    ELSE <<"super">>

\* Container.child_added(child): the steps of the handler, in order
child_added(child) ==
    IF IsConstraintsWidget(child)
    THEN <<"request_relayout", "super">>
    ELSE <<"super">>

\* Container.child_removed(child): the steps of the handler, in order
child_removed(child) ==
    IF IsConstraintsWidget(child)
    THEN <<"request_relayout", "super">>
    ELSE <<"super">>

\* the handler's steps are carried out on container c; the superclass
\* handler changes nothing of the layout scheduling
HandleChildEvent(c, event, child, steps) ==
    /\ handled' = [event |-> event, container |-> c, child |-> child, steps |-> steps]
    /\ LET r == IF \E i \in 1..Len(steps) : steps[i] = "request_relayout"
                THEN request_relayout(c)
                ELSE [queue |-> queue, layout_task |-> layout_task,
                      invoked |-> invoked, calls |-> calls]
       IN  /\ queue' = r.queue
           /\ layout_task' = r.layout_task
           /\ invoked' = r.invoked
           /\ calls' = r.calls

\* object o becomes the last child of container c
ChildAdded(c, o) ==
    /\ CanCall
    /\ Len(children[c]) < MaxChildren
    /\ \A i \in 1..Len(children[c]) : children[c][i] # o
    /\ children' = [children EXCEPT ![c] = Append(@, o)]
    /\ HandleChildEvent(c, "child_added", o, child_added(o))
    /\ UNCHANGED <<dock, members, pristine, fields, hooks, collected, active, running, pc>>

\* child o of container c is taken out of the tree
ChildRemoved(c, o) ==
    /\ CanCall
    /\ \E i \in 1..Len(children[c]) : children[c][i] = o
    /\ children' = [children EXCEPT ![c] = SelectSeq(@, LAMBDA x : x # o)]
    /\ HandleChildEvent(c, "child_removed", o, child_removed(o))
    /\ UNCHANGED <<dock, members, pristine, fields, hooks, collected, active, running, pc>>

NextTree ==
    \/ \E c \in Containers : \E o \in ChildObjects : ChildAdded(c, o)
    \/ \E c \in Containers : \E o \in ChildObjects : ChildRemoved(c, o)
    \/ \E w \in Widgets : Activate(w)
    \/ \E w \in Widgets : Deactivate(w)
    \/ TaskBegin
    \/ ProxyReturn
    \/ TaskNotify

SpecTree == Init /\ [][NextTree]_vars

-----------------------------------------------------------------------------
(* The layout scheduling under a scheduler that keeps its promise: every   *)
(* task it was given is eventually run, the body of a running task ends,   *)
(* and the completion callback of an ended task is fired, also when the    *)
(* body raised. Relayouts are requested and proxies are activated and      *)
(* deactivated at any time in between.                                     *)

NextFair ==
    \/ \E w \in Widgets : Relayout(w)
    \/ \E w \in Widgets : Activate(w)
    \/ \E w \in Widgets : Deactivate(w)
    \/ TaskBegin
    \/ ProxyReturn
    \/ ProxyRaise
    \/ TaskNotify
    \/ TaskFailed(TRUE)

\* the scheduler's progress: proxy.relayout() returns or raises, it does
\* not run forever
Fairness ==
    /\ WF_vars(TaskBegin)
    /\ WF_vars(ProxyReturn \/ ProxyRaise)
    /\ WF_vars(TaskNotify)
    /\ WF_vars(TaskFailed(TRUE))

SpecFair == Init /\ [][NextFair]_vars /\ Fairness

-----------------------------------------------------------------------------
(* The specification of the box model: members are read in any order while *)
(* relayouts are requested and layout tasks run.                           *)

NextMembers ==
    \/ \E w \in Widgets : \E n \in Primitives \cup Derived : Access(w, n)
    \/ \E w \in Widgets : Relayout(w)
    \/ \E w \in Widgets : Activate(w)
    \/ TaskBegin
    \/ ProxyReturn
    \/ TaskNotify

SpecMembers == Init /\ [][NextMembers]_vars

-----------------------------------------------------------------------------
(* The specification of the dock layout tests: layouts are assigned to the *)
(* displayed area, under either warnings filter, and update cycles run.    *)

InitDockLayout ==
    /\ InitWidgets
    /\ InitScheduling
    /\ \E filter \in {"default", "error"} : dock = InitDock(filter)

NextDockLayout ==
    \/ \E l \in DockLayouts : AssignLayout(l)
    \/ UpdateCycle

SpecDockLayout == InitDockLayout /\ [][NextDockLayout]_vars

-----------------------------------------------------------------------------
(* Properties of the layout scheduling.                                    *)

\* the tasks of w that are scheduled and not yet completed
Outstanding(w) == CountTasks(queue, w) + (IF running.callback = w THEN 1 ELSE 0)

\* the scheduler takes a task in this step
Begins == pc = "idle" /\ pc' # "idle"

\* C1: however many relayout() calls an active widget received while its
\* task waited, exactly one task is scheduled for it, and when the scheduler
\* runs that task for the still active widget, proxy.relayout() is invoked
\* exactly once and no task of the widget is left in the queue.
CoalescedRelayout ==
    /\ [](\A w \in Widgets : calls[w] >= 1 => Outstanding(w) = 1)
    /\ [][Begins /\ active[Head(queue).callback] /\ calls[Head(queue).callback] >= 1
            => /\ invoked' = <<[widget |-> Head(queue).callback, by |-> "task"]>>
               /\ CountTasks(queue', Head(queue).callback) = 0]_vars

\* C1 witness: a task that coalesced several relayout() calls is running
\* and has invoked proxy.relayout() once.
CoalescedRun ==
    /\ pc = "proxy"
    /\ calls[running.callback] >= 2
    /\ Len(invoked) = 1

\* C2: each widget has at most one outstanding task, and _layout_task is
\* set exactly when one is outstanding.
TaskHeldIffOutstanding ==
    \A w \in Widgets :
        /\ Outstanding(w) <= 1
        /\ (layout_task[w] # NoTask) <=> (Outstanding(w) = 1)

\* C3: proxy.relayout() is invoked only from the task the scheduler is
\* running, never by a relayout() call or a field change.
SolveOnlyInTask ==
    /\ [](\A i \in 1..Len(invoked) :
            /\ invoked[i].by = "task"
            /\ pc # "idle"
            /\ invoked[i].widget = running.callback)
    /\ [][(\E w \in Widgets : Relayout(w)) \/ fields' # fields
            => invoked' = invoked]_vars

\* C3 witness: a solve is under way inside a task while another widget's
\* trigger has returned and left its task in the queue.
SolveInTaskWhileQueued ==
    /\ pc = "proxy"
    /\ invoked = <<[widget |-> running.callback, by |-> "task"]>>
    /\ queue # <<>>

\* C4: a task run for a widget that is no longer active invokes nothing,
\* and the completion of such a task clears the widget's _layout_task.
InactiveTaskIsNoOp ==
    /\ [][Begins /\ ~active[Head(queue).callback]
            => invoked' = <<>> /\ pc' = "returned"]_vars
    /\ [][pc = "returned" /\ invoked = <<>> /\ pc' = "idle"
            => layout_task'[running.callback] = NoTask]_vars

\* C4 witness: the task of a deactivated widget has run as a no-op while
\* the widget still holds it.
InactiveTaskRan ==
    /\ pc = "returned"
    /\ invoked = <<>>
    /\ ~active[running.callback]
    /\ layout_task[running.callback] = running

\* w's task is appended to the queue and held by w in this step
Schedules(w) ==
    /\ layout_task[w] = NoTask
    /\ layout_task'[w] # NoTask
    /\ queue' = Append(queue, layout_task'[w])
    /\ layout_task'[w].callback = w

\* C5 as stated: a field change of an Idle widget schedules a task, a field
\* change of a Pending widget schedules nothing.
ChangeSchedulesWhenIdle ==
    [][\A w \in Widgets : fields'[w] # fields[w]
          => IF layout_task[w] = NoTask
             THEN Schedules(w)
             ELSE queue' = queue /\ layout_task' = layout_task]_vars

\* C5 amended: a field change of an Idle widget whose proxy is active
\* schedules a task; a field change of a widget that is Pending or whose
\* proxy is not active schedules nothing.
ChangeSchedulesWhenIdleAndActive ==
    [][\A w \in Widgets : fields'[w] # fields[w]
          => IF active[w] /\ layout_task[w] = NoTask
             THEN Schedules(w)
             ELSE queue' = queue /\ layout_task' = layout_task]_vars

\* C5 witness: a Container with a changed padding holds a queued task.
PaddingChangeScheduled ==
    /\ fields["c"]["padding"] # DefaultField("c", "padding")
    /\ layout_task["c"] # NoTask
    /\ CountTasks(queue, "c") = 1

\* C6: a task run for an active widget invokes proxy.relayout() exactly
\* once; when the task completes the widget's _layout_task is cleared; and
\* a relayout trigger on an active Idle widget schedules a fresh task.
ActiveTaskSolvesOnceThenIdle ==
    /\ [][Begins /\ active[Head(queue).callback]
            => /\ invoked' = <<[widget |-> Head(queue).callback, by |-> "task"]>>
               /\ pc' = "proxy"]_vars
    /\ [][pc = "returned" /\ pc' = "idle"
            => /\ layout_task'[running.callback] = NoTask
               /\ CountTasks(queue', running.callback) = 0
               /\ running' = NoTask]_vars
    /\ [][\A w \in Widgets :
            Relayout(w) /\ active[w] /\ layout_task[w] = NoTask => Schedules(w)]_vars

\* C6 witness: the task of an active widget has invoked proxy.relayout()
\* once and returned.
ActiveTaskReturned ==
    /\ pc = "returned"
    /\ active[running.callback]
    /\ invoked = <<[widget |-> running.callback, by |-> "task"]>>

\* C7: after a task whose body raised, the widget's _layout_task is unset.
FailedTaskClearsPending ==
    [][pc = "raised" /\ pc' = "idle"
          => layout_task'[running.callback] = NoTask]_vars

\* C20: a relayout() trigger on a widget whose proxy is not active schedules
\* no task, leaves every _layout_task as it was and invokes no
\* proxy.relayout(); nor does the later activation of a proxy do any of it.
InactiveTriggerChangesNothing ==
    [][(\/ \E w \in Widgets : ~active[w] /\ (Relayout(w) \/ fields'[w] # fields[w])
        \/ \E w \in Widgets : ~active[w] /\ active'[w])
          => /\ queue' = queue
             /\ layout_task' = layout_task
             /\ invoked' = invoked]_vars

\* C20 witness: a member of w was changed while its proxy was inactive, the
\* proxy is active now, and no task was scheduled nor is w's task handle set.
InactiveChangeThenActive ==
    /\ fields["w"]["hug_width"] # DefaultField("w", "hug_width")
    /\ active["w"]
    /\ layout_task["w"] = NoTask
    /\ queue = <<>>
    /\ pc = "idle"
    /\ ~active["c"]

-----------------------------------------------------------------------------
(* Properties of the constraints collection.                               *)

\* a collecting call of the given method is made in this step
Called(op) == collected' # collected /\ collected'.op = op

AllLinear(cns) == \A i \in 1..Len(cns) : cns[i].kind = "linear"

\* C9: with a non-empty user list the collected result starts with the
\* expansion of exactly the user's entries, in order, and the default
\* constraints are not asked for; with an empty user list the result is
\* built from _get_default_constraints(), which is empty for the base class.
CollectorPicksBase ==
    [][Called("_collect_constraints")
          => LET w    == collected'.widget
                 user == fields[w]["constraints"]
                 r    == collected'.result
                 tail == expand_constraints(w, hooks[w].component)
             IN  IF user # <<>>
                 THEN /\ "_get_default_constraints" \notin collected'.consulted
                      /\ r = expand_constraints(w, user) \o tail
                      /\ AllLinear(user) => SubSeq(r, 1, Len(user)) = user
                 ELSE /\ "_get_default_constraints" \in collected'.consulted
                      /\ r = expand_constraints(w, hooks[w].defaults) \o tail
                      /\ hooks[w] = BaseHooks => r = <<>>]_vars

\* C9 witness: a widget whose class has default constraints was collected
\* with a non-empty user list, and the defaults were not asked for.
CollectedUserListOverDefaults ==
    /\ collected.op = "_collect_constraints"
    /\ hooks[collected.widget].defaults # <<>>
    /\ fields[collected.widget]["constraints"] # <<>>
    /\ "_get_default_constraints" \notin collected.consulted
    /\ collected.result # <<>>

\* items are exactly the ConstraintsWidgets of ch, in the order of ch
IsConstraintsWidgetsOf(items, ch) ==
    /\ \A i \in 1..Len(items) : IsConstraintsWidget(items[i])
    /\ \E f \in [1..Len(items) -> 1..Len(ch)] :
          /\ \A i \in 1..Len(items) : ch[f[i]] = items[i]
          /\ \A i, j \in 1..Len(items) : i < j => f[i] < f[j]
          /\ \A k \in 1..Len(ch) :
                IsConstraintsWidget(ch[k]) => \E i \in 1..Len(items) : f[i] = k

\* C10: a Container with an empty constraints list returns one vbox helper
\* over exactly its ConstraintsWidget children, in child order; a Container
\* with a non-empty constraints list returns that list.
ContainerDefaultsToVbox ==
    [][Called("layout_constraints")
          => LET c    == collected'.widget
                 user == fields[c]["constraints"]
                 r    == collected'.result
             IN  IF user = <<>>
                 THEN /\ Len(r) = 1
                      /\ r[1].kind = "vbox"
                      /\ IsConstraintsWidgetsOf(r[1].items, children[c])
                 ELSE /\ r = user
                      /\ \A i \in 1..Len(r) : r[i].kind # "vbox"]_vars

\* C10 witness: the default vbox of a container with three children, one
\* of them not a ConstraintsWidget, holds the two others.
VboxSkipsOtherChild ==
    /\ collected.op = "layout_constraints"
    /\ fields[collected.widget]["constraints"] = <<>>
    /\ Len(children[collected.widget]) = 3
    /\ Len(collected.result) = 1
    /\ Len(collected.result[1].items) = 2

-----------------------------------------------------------------------------
(* Properties of the strength settings.                                    *)

\* every strength member holds one of the five strengths
StrengthsAreEnumValues ==
    \A w \in Widgets : \A f \in {"hug_width", "hug_height", "resist_width", "resist_height"} :
        fields[w][f] \in {"ignore", "weak", "medium", "strong", "required"}

\* C11 as stated: the four strength settings of every widget, Containers
\* included, start as 'strong', and only ever hold one of the five strengths.
AllStrengthsStartStrong ==
    /\ StrengthsAreEnumValues
    /\ \A w \in Widgets :
          pristine =>
             \A f \in {"hug_width", "hug_height", "resist_width", "resist_height"} :
                fields[w][f] = "strong"

\* C11 amended: the four strength settings start as 'strong', except that a
\* Container's hug_width and hug_height start as 'ignore'; each setting only
\* ever holds one of the five strengths.
StrengthsStartStrongOrIgnore ==
    /\ StrengthsAreEnumValues
    /\ \A w \in Widgets :
          pristine =>
             /\ fields[w]["resist_width"] = "strong"
             /\ fields[w]["resist_height"] = "strong"
             /\ fields[w]["hug_width"] = IF w \in Containers THEN "ignore" ELSE "strong"
             /\ fields[w]["hug_height"] = IF w \in Containers THEN "ignore" ELSE "strong"

\* C11 witness: the widgets still have the strengths they were constructed
\* with after another member, the Container's padding, was reassigned.
StrengthsUntouched ==
    /\ pristine
    /\ fields["c"]["padding"] # <<10, 10, 10, 10>>
    /\ fields["c"]["hug_width"] = "ignore"
    /\ fields["w"]["hug_width"] = "strong"

-----------------------------------------------------------------------------
(* Properties of the box model.                                            *)

\* the values given to the primitive variables of one widget
Valuations == [Primitives -> 0..MaxCoord]

RECURSIVE Eval2(_, _)
\* twice the value of expression e when variable <<w, n>> has value val[n]
Eval2(e, val) ==
    IF e = {} THEN 0
    ELSE LET t == CHOOSE x \in e : TRUE
         IN  t[2] * val[t[1][2]] + Eval2(e \ {t}, val)

PrimitiveVariablesOwned ==
    /\ [](\A w \in Widgets : \A n \in Primitives :
            members[w][n] # Unset =>
               /\ Cardinality(members[w][n]) = 1
               /\ \A t \in members[w][n] : t[1][2] = n /\ t[2] = 2
               /\ \A w2 \in Widgets \ {w} : \A n2 \in Primitives \cup Derived :
                     VarsOf(members[w][n]) \cap VarsOf(members[w2][n2]) = {})
    /\ [][\A w \in Widgets : \A n \in Primitives :
            members[w][n] # Unset => members'[w][n] = members[w][n]]_vars

\* C13 witness: both widgets have created their `left` variable and one
\* of them a derived member that uses it.
BothLeftsCreated ==
    /\ members["c"]["left"] # Unset
    /\ members["w"]["left"] # Unset
    /\ members["c"]["right"] # Unset

-----------------------------------------------------------------------------
(* Properties of the dock layout validation.                               *)

\* a layout is assigned to the area in this step
Assigns == dock'.layout # dock.layout

\* C14: assigning a layout that names an item the area does not have emits
\* a DockLayoutWarning, raises nothing under the default warnings filter,
\* and leaves the globals of the assigning module as they were.
UnknownItemWarns ==
    [][Assigns /\ (\E i \in 1..Len(dock'.layout.names) :
                      dock'.layout.names[i] \notin {"item1", "item2"})
          => /\ dock.filter = "default" =>
                   dock'.emitted = <<"DockLayoutWarning">> /\ ~dock'.raised
             /\ dock'.globals = dock.globals]_vars

\* C14 witness: HSplitLayout('item1', 'item2', 'item3') was assigned and
\* a DockLayoutWarning emitted.
Item3Warned ==
    /\ dock.layout = [kind |-> "HSplitLayout", names |-> <<"item1", "item2", "item3">>]
    /\ dock.emitted = <<"DockLayoutWarning">>
    /\ ~dock.raised

\* C15: replacing the layout by one that names exactly the existing items
\* emits no warning, neither at the assignment nor in the update cycles
\* that follow, and so raises nothing under the 'error' filter.
KnownItemsDoNotWarn ==
    /\ [][Assigns /\ {dock'.layout.names[i] : i \in 1..Len(dock'.layout.names)} = {"item1", "item2"}
            => dock'.emitted = <<>> /\ ~dock'.raised]_vars
    /\ [][dock'.applied /\ ~dock.applied => dock'.emitted = <<>> /\ ~dock'.raised]_vars

\* C15 witness: under the 'error' filter HSplitLayout('item1', 'item2')
\* replaced the layout and was applied without a warning.
HSplitApplied ==
    /\ dock.filter = "error"
    /\ dock.layout = [kind |-> "HSplitLayout", names |-> <<"item1", "item2">>]
    /\ dock.applied
    /\ dock.emitted = <<>>
    /\ ~dock.raised

-----------------------------------------------------------------------------
(* Properties of re-entrant triggers.                                      *)

\* C16: a field change of a widget made from inside its own layout task
\* starts no nested proxy.relayout() and leaves a further task of the widget
\* in the scheduler's queue.
ReentrantTriggerRescheduled ==
    [][\A w \in Widgets :
          fields'[w] # fields[w] /\ Reenters(w)
             => /\ invoked' = invoked
                /\ CountTasks(queue', w) = 1]_vars

\* C18: the result of _collect_constraints() is the expansion of the base
\* list (the user's list, or the defaults when that is empty) followed by
\* the expansion of the widget's component constraints, and none of its
\* entries is one of the widget's hard constraints.
CollectedBaseThenComponent ==
    [][Called("_collect_constraints")
          => LET w    == collected'.widget
                 r    == collected'.result
                 base == IF fields[w]["constraints"] # <<>>
                         THEN fields[w]["constraints"]
                         ELSE hooks[w].defaults
                 eb   == expand_constraints(w, base)
                 ec   == expand_constraints(w, hooks[w].component)
                 hard == HardConstraints(w)
             IN  /\ Len(r) = Len(eb) + Len(ec)
                 /\ SubSeq(r, 1, Len(eb)) = eb
                 /\ SubSeq(r, Len(eb) + 1, Len(r)) = ec
                 /\ \A i \in 1..Len(r) : \A j \in 1..Len(hard) : r[i] # hard[j]]_vars

\* C18 witness: a widget with default and component constraints of its own
\* was collected, and both are in the result.
CollectedDefaultsAndComponent ==
    /\ collected.op = "_collect_constraints"
    /\ fields[collected.widget]["constraints"] = <<>>
    /\ hooks[collected.widget].defaults # <<>>
    /\ hooks[collected.widget].component # <<>>
    /\ Len(collected.result) = 2

\* C19: a call of _collect_constraints() leaves the widget's constraints
\* list with exactly the entries it had, and a call that directly follows
\* another one on the same widget returns an equal result.
CollectionLeavesUserList ==
    [][Called("_collect_constraints")
          => /\ fields' = fields
             /\ collected.op = "_collect_constraints"
                   /\ collected.widget = collected'.widget
                   => collected'.result = collected.result]_vars

-----------------------------------------------------------------------------
(* Properties of the container's child events.                             *)

\* the object that enters or leaves the children of c in this step
ChangedChild(c) ==
    CHOOSE o \in ChildObjects :
        (\E i \in 1..Len(children[c]) : children[c][i] = o)
            # (\E i \in 1..Len(children'[c]) : children'[c][i] = o)

\* C17: when a child of a container is added or removed, the handler requests
\* a relayout of the container exactly when the child is a ConstraintsWidget,
\* it does so before the superclass handler runs, and for any other child
\* only the superclass handler runs.
ChildEventRequestsFirst ==
    [][\A c \in Containers :
          children'[c] # children[c] =>
              LET o == ChangedChild(c)
              IN  IF IsConstraintsWidget(o)
                  THEN /\ handled'.steps = <<"request_relayout", "super">>
                       /\ active[c] /\ layout_task[c] = NoTask
                             => /\ layout_task'[c] # NoTask
                                /\ CountTasks(queue', c) = CountTasks(queue, c) + 1
                  ELSE /\ handled'.steps = <<"super">>
                       /\ queue' = queue
                       /\ layout_task' = layout_task]_vars

\* a ConstraintsWidget was added to the active container, which scheduled
\* its layout task
SiblingAddedAndScheduled ==
    /\ handled.event = "child_added"
    /\ handled.child = "v"
    /\ active["c"]
    /\ layout_task["c"] # NoTask
    /\ CountTasks(queue, "c") = 1
    /\ pc = "idle"

-----------------------------------------------------------------------------
(* Properties of the scheduling under a scheduler that runs every task.    *)

\* C21: when the scheduler runs every task it was given and then fires the
\* task's completion callback, a widget whose _layout_task is set is later
\* in a state where it is unset, whatever relayouts, activations and
\* deactivations happen in between.
PendingEventuallyCleared ==
    \A w \in Widgets : (layout_task[w] # NoTask) ~> (layout_task[w] = NoTask)

\* C21 witness: the task of a widget waits in the queue behind another
\* widget's task, and the widget's proxy was deactivated meanwhile.
PendingBehindOtherAndInactive ==
    /\ layout_task["w"] # NoTask
    /\ ~active["w"]
    /\ Len(queue) = 2
    /\ queue[1].callback = "c"
    /\ queue[2].callback = "w"
    /\ pc = "idle"

====
